---- MODULE Spec2Model ----
(***************************************************************************)
(* Kao, the kaomoji picker: the reactive script of the page component      *)
(* (src/README.md, lines 233-561) as a state machine.                      *)
(*                                                                         *)
(* Strings are sequences of one-character strings, so that trim(), the     *)
(* token regular expression, String.replace and toLowerCase are computed   *)
(* the way the script computes them.                                       *)
(***************************************************************************)
EXTENDS Integers, Sequences, FiniteSets, TLC

(***************************************************************************)
(* Characters and strings                                                  *)
(***************************************************************************)

\* \s of the regular expressions and of String.prototype.trim
IsSpace(c) == c = " "

\* \p{L}, \p{N}, "_" and "-": what the sanitizer of line 317 keeps
IsWordChar(c) == c \in {"a", "c", "g", "h", "j", "s", "t", "x", "H", "J", "S", "7", "_", "-"}

\* String.prototype.toLowerCase on one character
LowerChar(c) ==
    CASE c = "H" -> "h"
      [] c = "J" -> "j"
      [] c = "S" -> "s"
      [] OTHER -> c

ToLowerCase(s) == [i \in 1..Len(s) |-> LowerChar(s[i])]

RECURSIVE TrimStart(_)
TrimStart(s) ==
    IF s # <<>> /\ IsSpace(Head(s)) THEN TrimStart(Tail(s)) ELSE s

RECURSIVE TrimEnd(_)
TrimEnd(s) ==
    IF s # <<>> /\ IsSpace(s[Len(s)]) THEN TrimEnd(SubSeq(s, 1, Len(s) - 1)) ELSE s

\* String.prototype.trim
Trim(s) == TrimEnd(TrimStart(s))

\* whether sub occurs in s at (1-based) position i
OccursAt(s, sub, i) ==
    /\ i >= 1
    /\ i + Len(sub) - 1 <= Len(s)
    /\ \A k \in 1..Len(sub) : s[i + k - 1] = sub[k]

\* String.prototype.indexOf, 1-based; 0 when sub does not occur
IndexOf(s, sub) ==
    LET hits == {i \in 1..(Len(s) + 1) : OccursAt(s, sub, i)}
    IN  IF hits = {} THEN 0 ELSE CHOOSE i \in hits : \A j \in hits : i <= j

\* s.replace(sub, ""): the first occurrence of the string sub is removed
ReplaceFirst(s, sub) ==
    LET at == IndexOf(s, sub)
    IN  IF at = 0 THEN s
        ELSE SubSeq(s, 1, at - 1) \o SubSeq(s, at + Len(sub), Len(s))

\* value.replace(/[^\p{L}\p{N}_-]/gu, "").toLowerCase()
Sanitize(value) == ToLowerCase(SelectSeq(value, IsWordChar))

(***************************************************************************)
(* The token regular expression /(?:^|\s)(cat|tag):([^\s]+)/g              *)
(***************************************************************************)

NoMatch == [found |-> FALSE]

\* the end of the run of non-space characters that starts at position i
RECURSIVE RunEnd(_, _)
RunEnd(s, i) ==
    IF i <= Len(s) /\ ~IsSpace(s[i]) THEN RunEnd(s, i + 1) ELSE i - 1

\* (cat|tag):([^\s]+) anchored at position k; lead is the text (?:^|\s) consumed
KeywordAt(s, k, lead) ==
    LET isCat == OccursAt(s, <<"c", "a", "t", ":">>, k)
        isTag == OccursAt(s, <<"t", "a", "g", ":">>, k)
        last  == RunEnd(s, k + 4)
    IN  IF (isCat \/ isTag) /\ last >= k + 4
        THEN [found     |-> TRUE,
              type      |-> IF isCat THEN "cat" ELSE "tag",
              value     |-> SubSeq(s, k + 4, last),
              fullMatch |-> lead \o SubSeq(s, k, last),
              lastIndex |-> last + 1]
        ELSE NoMatch

\* one attempt of the expression at position i: ^ first, then \s
MatchAt(s, i) ==
    LET atStart == IF i = 1 THEN KeywordAt(s, 1, <<>>) ELSE NoMatch
    IN  IF atStart.found THEN atStart
        ELSE IF i <= Len(s) /\ IsSpace(s[i]) THEN KeywordAt(s, i + 1, <<s[i]>>)
        ELSE NoMatch

\* tokenRegex.exec(query) with tokenRegex.lastIndex = from - 1
RECURSIVE RegexExec(_, _)
RegexExec(s, from) ==
    IF from > Len(s) THEN NoMatch
    ELSE IF MatchAt(s, from).found THEN MatchAt(s, from)
    ELSE RegexExec(s, from + 1)

(***************************************************************************)
(* Entries (src/src/lib/Types.ts) and the fuzzy search                     *)
(***************************************************************************)

KaomojiEntry(character, tags, category) ==
    [Character |-> character, Tags |-> tags, Category |-> category]

\* the indices of list, as a set
Indices(list) == 1..Len(list)

\* k.Tags.some((t) => t.toLowerCase() === value)  (line 326)
SomeTag(tags, value) == \E i \in Indices(tags) : ToLowerCase(tags[i]) = value

\* Array.prototype.findIndex by Character, 1-based; 0 when there is none
FindIndex(list, character) ==
    LET hits == {i \in Indices(list) : list[i].Character = character}
    IN  IF hits = {} THEN 0 ELSE CHOOSE i \in hits : \A j \in hits : i <= j

\* The keys of FuseOptions in the order of their weights: Tags 0.55,
\* Category 0.25, Character 0.2.  Fuse.js is a library the script imports;
\* its scoring is abstracted to an exact, case-insensitive match of the
\* pattern against a key, ranked by the weight of the best key that matches
\* (1 = Tags, 2 = Category, 3 = Character, 0 = the entry is not a result).
FuseRank(entry, pattern) ==
    LET p == ToLowerCase(pattern)
    IN  IF SomeTag(entry.Tags, p) THEN 1
        ELSE IF ToLowerCase(entry.Category) = p THEN 2
        ELSE IF ToLowerCase(entry.Character) = p THEN 3
        ELSE 0

\* new Fuse(list, FuseOptions).search(pattern).map((r) => r.item):
\* the matches by ascending score, ties in list order
FuseSearch(list, pattern) ==
    LET ranked(r) == SelectSeq(list, LAMBDA e : FuseRank(e, pattern) = r)
    IN  ranked(1) \o ranked(2) \o ranked(3)

(***************************************************************************)
(* FilteredResults: the derived result list (lines 298-342)                *)
(***************************************************************************)

\* the filter of a token skipped when the sanitized value is empty
TokenFilterSkipsEmpty(filtered, type, sanitizedValue) ==
    IF sanitizedValue = <<>> THEN filtered
    ELSE IF type = "cat"
    THEN SelectSeq(filtered, LAMBDA k : ToLowerCase(k.Category) = sanitizedValue)
    ELSE SelectSeq(filtered,
                   LAMBDA k : SomeTag(k.Tags, sanitizedValue))

\* the filter a token applies (lines 320-328)
TokenFilter(filtered, type, sanitizedValue) ==
    IF type = "cat"
    THEN SelectSeq(filtered, LAMBDA k : ToLowerCase(k.Category) = sanitizedValue)
    ELSE SelectSeq(filtered,
                   LAMBDA k : SomeTag(k.Tags, sanitizedValue))

\* remainingQuery.replace(fullMatch, "").trim()  (line 329)
StripToken(remainingQuery, fullMatch) == Trim(ReplaceFirst(remainingQuery, fullMatch))

\* the while loop of lines 312-330; acc carries hasTokens, filtered and
\* remainingQuery, from is the expression's lastIndex
RECURSIVE TokenLoop(_, _, _)
TokenLoop(query, from, acc) ==
    LET match == RegexExec(query, from)
    IN  IF ~match.found THEN acc
        ELSE TokenLoop(query, match.lastIndex,
                 [hasTokens      |-> TRUE,
                  filtered       |-> TokenFilter(acc.filtered, match.type,
                                                 Sanitize(match.value)),
                  remainingQuery |-> StripToken(acc.remainingQuery, match.fullMatch)])

\* the parse of a trimmed, non-empty query against a list
ParseQuery(list, query) ==
    TokenLoop(query, 1,
              [hasTokens |-> FALSE, filtered |-> list, remainingQuery |-> query])

\* the $derived.by testing SearchQuery where the code tests its trim()
ComputeFilteredResultsUntrimmed(list, searchQuery) ==
    LET parsed == ParseQuery(list, searchQuery)
    IN  IF searchQuery = <<>> THEN list
        ELSE IF parsed.hasTokens
             THEN IF Len(parsed.remainingQuery) > 0
                  THEN FuseSearch(parsed.filtered, parsed.remainingQuery)
                  ELSE parsed.filtered
        ELSE FuseSearch(list, searchQuery)

\* the body of the $derived.by of lines 298-342
ComputeFilteredResults(list, searchQuery) ==
    LET query  == Trim(searchQuery)
        parsed == ParseQuery(list, query)
    IN  IF query = <<>> THEN list
        ELSE IF parsed.hasTokens
             THEN IF Len(parsed.remainingQuery) > 0
                  THEN FuseSearch(parsed.filtered, parsed.remainingQuery)
                  ELSE parsed.filtered
        ELSE FuseSearch(list, query)

(***************************************************************************)
(* Bounds and the inputs the environment may supply                        *)
(***************************************************************************)

\* the widest grid, in units of three cards
MaxWidthUnits == 1
\* the longest list LoadUserKaomojis returns
MaxUserItems == 2
\* SaveKaomoji invocations that may be in flight together
MaxSaves == 1
\* commits of a session that only copies
ManyCommits == 2

\* Card min width (line 368)
MinCard == 100

G1 == <<"^">>
G2 == <<"~">>
G3 == <<"*">>

\* $lib/Data/Kaomoji.json as imported at line 266; glyphs are distinct
KaomojiDataRaw ==
    << KaomojiEntry(G1, << <<"h">> >>, <<"J">>),
       KaomojiEntry(G2, << <<"s">>, <<"H">> >>, <<"S">>) >>

\* what LoadUserKaomojis may hold: an entry for a bundled glyph, a new one
UserPool ==
    { KaomojiEntry(G2, << <<"x">> >>, <<"J">>),
      KaomojiEntry(G3, << <<"s">> >>, <<"S">>) }

RECURSIVE SeqsUpTo(_, _)
SeqsUpTo(S, n) ==
    IF n = 0 THEN {<<>>}
    ELSE LET shorter == SeqsUpTo(S, n - 1)
         IN  shorter \cup {Append(q, x) : q \in shorter, x \in S}

UserItemLists == SeqsUpTo(UserPool, MaxUserItems)

\* the add form as filled in: NewCharacter, NewTags.split(","), NewCategory
Forms ==
    { [NewCharacter |-> <<" ", "^">>, NewTags |-> << <<" ", "x">>, <<" ">> >>,
       NewCategory |-> <<"S">>],
      [NewCharacter |-> G3, NewTags |-> << <<"h">> >>, NewCategory |-> <<"J">>],
      [NewCharacter |-> <<" ">>, NewTags |-> <<>>, NewCategory |-> <<"J">>] }

\* clientWidths of the grid: room for three more cards each
Widths == {k * 3 * MinCard : k \in 0..MaxWidthUnits}
Gaps == {0}

QueryCatS == <<"c", "a", "t", ":", "S">>
QueryCatTag == <<"c", "a", "t", ":", "j", " ", "t", "a", "g", ":", "h">>

QueryBlank == <<" ", " ">>

Queries == { <<>>, QueryBlank, <<"x">>, QueryCatS, QueryCatTag }

NavKeys == {"ArrowRight", "ArrowLeft", "ArrowDown", "ArrowUp"}
Keys == NavKeys \cup {"Enter", "Escape", "a"}

\* a key with whether its target is an INPUT or TEXTAREA (lines 497-500);
\* in one the keys typed are the navigation keys
KeyEvents ==
    {[key |-> k, isTyping |-> FALSE] : k \in Keys}
        \cup {[key |-> k, isTyping |-> TRUE] : k \in {"ArrowRight", "ArrowDown"}}

\* The inputs of a session: the queries typed, the forms submitted, the lists
\* loaded, how many SaveKaomoji calls are in flight at a time, how many
\* commits are issued, whether the CopyToClipboard calls
\* that ended are kept in copies (when they are not, commits bounds the calls
\* and toast timers pending at a time), and whether the last handler is
\* recorded in the variable last.
FullSession ==
    [queries |-> {<<>>, <<"x">>, QueryCatS},
     forms |-> {f \in Forms : Trim(f.NewCharacter) # <<>>},
     loads |-> SeqsUpTo(UserPool, 1),
     saves |-> 1, commits |-> 1, keep |-> FALSE, record |-> FALSE]

CatalogSession ==
    [queries |-> Queries, forms |-> Forms, loads |-> UserItemLists,
     saves |-> MaxSaves, commits |-> 0, keep |-> TRUE, record |-> TRUE]

CopySession ==
    [queries |-> {<<>>, QueryCatS}, forms |-> Forms, loads |-> UserItemLists,
     saves |-> 0, commits |-> ManyCommits, keep |-> TRUE, record |-> FALSE]

(***************************************************************************)
(* State                                                                   *)
(***************************************************************************)

VARIABLES
    KaomojiList,       \* line 268
    RecentKaomojis,    \* line 269
    SearchQuery,       \* line 271
    LastCopied,        \* line 272
    LastCopiedIndex,   \* line 273
    ShowToast,         \* line 274
    ShowAddModal,      \* line 275
    SelectedIndex,     \* line 276
    GridCols,          \* line 279
    FilteredResults,   \* line 298: the value of the $derived
    loadPending,       \* the invoke("LoadUserKaomojis") of onMount is in flight
    saves,             \* the entries of the invoke("SaveKaomoji") calls in flight
    copies,            \* the CopyToClipboard calls, in the order issued
    toastTimers,       \* the setTimeout callbacks of HandleCopySuccess pending
    last               \* the handler that ran last, and what it was given

vars ==
    << KaomojiList, RecentKaomojis, SearchQuery, LastCopied, LastCopiedIndex,
       ShowToast, ShowAddModal, SelectedIndex, GridCols, FilteredResults,
       loadPending, saves, copies, toastTimers, last >>

NoHandler == [op |-> "mount", arg |-> <<>>, clamped |-> FALSE]

\* the state once the component is constructed around the list given
Mounted(list) ==
    /\ KaomojiList = list
    /\ RecentKaomojis = <<>>
    /\ SearchQuery = <<>>
    /\ LastCopied = <<>>
    /\ LastCopiedIndex = -1
    /\ ShowToast = FALSE
    /\ ShowAddModal = FALSE
    /\ SelectedIndex = 0
    /\ GridCols = 3
    /\ FilteredResults = ComputeFilteredResults(list, <<>>)
    /\ loadPending = TRUE
    /\ saves = <<>>
    /\ copies = <<>>
    /\ toastTimers = 0
    /\ last = NoHandler

Init == Mounted(KaomojiDataRaw)

(***************************************************************************)
(* The functions of the script                                             *)
(***************************************************************************)

\* the $effect comparing with > where the code has >=
RangingEffectOffByOne(count, selected) ==
    IF count = 0 THEN 0
    ELSE IF selected > count THEN count - 1
    ELSE selected

\* the $effect without its else-if branch
RangingEffectNoShrink(count, selected) ==
    IF count = 0 THEN 0
    ELSE selected

\* RANGING CONTRACT: the $effect of lines 344-352, given the length of
\* FilteredResults and the SelectedIndex it reads
RangingEffect(count, selected) ==
    IF count = 0 THEN 0
    ELSE IF selected >= count THEN count - 1
    ELSE selected

Max(a, b) == IF a >= b THEN a ELSE b
Min(a, b) == IF a <= b THEN a ELSE b

\* RecomputeCols (lines 361-372) for a grid of the given clientWidth and gap
RecomputeCols(width, gap) == Max(1, (width + gap) \div (MinCard + gap))

\* the merge without its filter on existingChars
MergeAppendAll(list, userItems) ==
    IF Len(userItems) > 0 THEN list \o userItems ELSE list

\* the merge of onMount (lines 380-388)
MergeUserItems(list, userItems) ==
    IF Len(userItems) > 0
    THEN LET existingChars == {list[i].Character : i \in Indices(list)}
             uniqueUserItems ==
                 SelectSeq(userItems, LAMBDA k : k.Character \notin existingChars)
         IN  list \o uniqueUserItems
    ELSE list

\* AddToRecents without its slice(0, 8)
AddToRecentsUncapped(recents, entry) ==
    <<entry>> \o SelectSeq(recents, LAMBDA k : k.Character # entry.Character)

\* AddToRecents without its filter on Character
AddToRecentsNoFilter(recents, entry) ==
    LET all == <<entry>> \o recents
    IN  SubSeq(all, 1, Min(8, Len(all)))

\* AddToRecents (lines 430-435)
AddToRecents(recents, entry) ==
    LET others == SelectSeq(recents, LAMBDA k : k.Character # entry.Character)
        all    == <<entry>> \o others
    IN  SubSeq(all, 1, Min(8, Len(all)))

\* the entry SubmitNewKaomoji builds from the form (lines 455-461)
FormEntry(form) ==
    KaomojiEntry(Trim(form.NewCharacter),
                 SelectSeq([i \in Indices(form.NewTags) |-> Trim(form.NewTags[i])],
                           LAMBDA t : t # <<>>),
                 form.NewCategory)

\* an upsert that drops the entry found and appends the new one
UpsertMoveToEnd(list, entry) ==
    LET index == FindIndex(list, entry.Character)
    IN  IF index # 0
        THEN SubSeq(list, 1, index - 1) \o SubSeq(list, index + 1, Len(list)) \o <<entry>>
        ELSE list \o <<entry>>

\* IMMUTABLE UPSERT STRATEGY (lines 466-478)
Upsert(list, entry) ==
    LET index == FindIndex(list, entry.Character)
    IN  IF index # 0
        THEN SubSeq(list, 1, index - 1) \o <<entry>> \o SubSeq(list, index + 1, Len(list))
        ELSE list \o <<entry>>

\* a sequence without its i-th element
RemoveAt(seq, i) == SubSeq(seq, 1, i - 1) \o SubSeq(seq, i + 1, Len(seq))

\* CopyToClipboard up to its first await (lines 402-406): the native write
\* is invoked
StartCopy(character, index) ==
    [character |-> character, index |-> index, pc |-> "native",
     nativeWrites |-> 1, navigatorWrites |-> 0]

\* the native write rejected and invoked again
OnNativeRejectedRetries(p) ==
    [p EXCEPT !.nativeWrites = @ + 1]

\* the native write rejected (lines 408-414): the navigator write is invoked
OnNativeRejected(p) ==
    [p EXCEPT !.pc = "navigator", !.navigatorWrites = @ + 1]

\* the navigator write rejected (lines 416-418): successState stays false
OnNavigatorRejected(p) == [p EXCEPT !.pc = "failed"]

\* a write resolved (lines 407, 415): successState = true
OnWriteResolved(p) == [p EXCEPT !.pc = "copied"]

\* the column counts RecomputeCols may find
ColumnCounts == {RecomputeCols(width, gap) : width \in Widths, gap \in Gaps}

(***************************************************************************)
(* Handlers.  Each runs to completion.  FilteredResults is re-derived when *)
(* SearchQuery or KaomojiList is written, and the $effect of lines 344-352 *)
(* is flushed in a microtask, ahead of the next event, so each handler     *)
(* ends with it.                                                           *)
(***************************************************************************)

\* the $derived of line 298 after a handler that wrote one of its sources
Rederive == FilteredResults' = ComputeFilteredResults(KaomojiList', SearchQuery')

\* the $effect on the SelectedIndex the handler leaves, and the record of
\* the handler
Effects(ss, op, arg, selected) ==
    /\ SelectedIndex' = RangingEffect(Len(FilteredResults'), selected)
    /\ last' = IF ss.record
               THEN [op |-> op, arg |-> arg, clamped |-> SelectedIndex' # selected]
               ELSE last

\* bind:value of the search input (line 571)
SetQuery(ss) ==
    \E q \in ss.queries :
        /\ SearchQuery' = q
        /\ UNCHANGED << KaomojiList, RecentKaomojis, LastCopied, LastCopiedIndex,
                        ShowToast, ShowAddModal, GridCols, loadPending, saves,
                        copies, toastTimers >>
        /\ Rederive
        /\ Effects(ss, "SetQuery", q, SelectedIndex)

\* the ResizeObserver callback (line 396) and the binding effect (355-359)
Resize(ss) ==
    \E cols \in ColumnCounts :
        /\ GridCols' = cols
        /\ UNCHANGED << KaomojiList, RecentKaomojis, SearchQuery, LastCopied,
                        LastCopiedIndex, ShowToast, ShowAddModal, FilteredResults,
                        loadPending, saves, copies, toastTimers >>
        /\ Effects(ss, "Resize", cols, SelectedIndex)

\* the add button (line 577)
OpenModal(ss) ==
    /\ ShowAddModal' = TRUE
    /\ UNCHANGED << KaomojiList, RecentKaomojis, SearchQuery, LastCopied,
                    LastCopiedIndex, ShowToast, GridCols, FilteredResults,
                    loadPending, saves, copies, toastTimers >>
    /\ Effects(ss, "OpenModal", <<>>, SelectedIndex)

\* the overlay, its Escape and the Cancel button (lines 622, 623, 673)
CloseModal(ss) ==
    /\ ShowAddModal
    /\ ShowAddModal' = FALSE
    /\ UNCHANGED << KaomojiList, RecentKaomojis, SearchQuery, LastCopied,
                    LastCopiedIndex, ShowToast, GridCols, FilteredResults,
                    loadPending, saves, copies, toastTimers >>
    /\ Effects(ss, "CloseModal", <<>>, SelectedIndex)

\* onMount merging into the list it was mounted with, not the list as it is
\* when LoadUserKaomojis resolves
LoadResolvedStale(ss) ==
    \E userItems \in ss.loads, cols \in ColumnCounts :
        /\ loadPending
        /\ loadPending' = FALSE
        /\ KaomojiList' = MergeUserItems(KaomojiDataRaw, userItems)
        /\ GridCols' = cols
        /\ UNCHANGED << RecentKaomojis, SearchQuery, LastCopied, LastCopiedIndex,
                        ShowToast, ShowAddModal, saves, copies, toastTimers >>
        /\ Rederive
        /\ Effects(ss, "LoadResolved", userItems, SelectedIndex)

\* onMount: LoadUserKaomojis resolved with userItems (lines 378-388, 393)
LoadResolved(ss) ==
    \E userItems \in ss.loads, cols \in ColumnCounts :
        /\ loadPending
        /\ loadPending' = FALSE
        /\ KaomojiList' = MergeUserItems(KaomojiList, userItems)
        /\ GridCols' = cols
        /\ UNCHANGED << RecentKaomojis, SearchQuery, LastCopied, LastCopiedIndex,
                        ShowToast, ShowAddModal, saves, copies, toastTimers >>
        /\ Rederive
        /\ Effects(ss, "LoadResolved", userItems, SelectedIndex)

\* the catch of onMount emptying the list
LoadRejectedClears(ss) ==
    \E cols \in ColumnCounts :
        /\ loadPending
        /\ loadPending' = FALSE
        /\ KaomojiList' = <<>>
        /\ GridCols' = cols
        /\ UNCHANGED << RecentKaomojis, SearchQuery, LastCopied, LastCopiedIndex,
                        ShowToast, ShowAddModal, saves, copies, toastTimers >>
        /\ Rederive
        /\ Effects(ss, "LoadRejected", <<>>, SelectedIndex)

\* onMount: LoadUserKaomojis rejected (lines 389-393)
LoadRejected(ss) ==
    \E cols \in ColumnCounts :
        /\ loadPending
        /\ loadPending' = FALSE
        /\ GridCols' = cols
        /\ UNCHANGED << KaomojiList, RecentKaomojis, SearchQuery, LastCopied,
                        LastCopiedIndex, ShowToast, ShowAddModal, FilteredResults,
                        saves, copies, toastTimers >>
        /\ Effects(ss, "LoadRejected", <<>>, SelectedIndex)

\* SubmitNewKaomoji applying the upsert ahead of its await
SubmitOptimistic(ss) ==
    \E form \in ss.forms :
        /\ ShowAddModal
        /\ Len(saves) < ss.saves
        /\ saves' = IF Trim(form.NewCharacter) = <<>> THEN saves
                    ELSE Append(saves, FormEntry(form))
        /\ KaomojiList' = IF Trim(form.NewCharacter) = <<>> THEN KaomojiList
                          ELSE Upsert(KaomojiList, FormEntry(form))
        /\ UNCHANGED << RecentKaomojis, SearchQuery, LastCopied,
                        LastCopiedIndex, ShowToast, ShowAddModal, GridCols,
                        loadPending, copies, toastTimers >>
        /\ Rederive
        /\ Effects(ss, "SubmitNewKaomoji", form, SelectedIndex)

\* SubmitNewKaomoji up to its await (lines 450-464), from the Save button or
\* Enter in the dialog (lines 631, 675)
SubmitNewKaomoji(ss) ==
    \E form \in ss.forms :
        /\ ShowAddModal
        /\ Len(saves) < ss.saves
        /\ saves' = IF Trim(form.NewCharacter) = <<>> THEN saves
                    ELSE Append(saves, FormEntry(form))
        /\ UNCHANGED << KaomojiList, RecentKaomojis, SearchQuery, LastCopied,
                        LastCopiedIndex, ShowToast, ShowAddModal, GridCols,
                        FilteredResults, loadPending, copies, toastTimers >>
        /\ Effects(ss, "SubmitNewKaomoji", form, SelectedIndex)

\* SaveKaomoji resolved: the upsert and the form reset (lines 466-483)
SaveResolved(ss) ==
    \E i \in Indices(saves) :
        /\ KaomojiList' = Upsert(KaomojiList, saves[i])
        /\ ShowAddModal' = FALSE
        /\ saves' = RemoveAt(saves, i)
        /\ UNCHANGED << RecentKaomojis, SearchQuery, LastCopied, LastCopiedIndex,
                        ShowToast, GridCols, loadPending, copies, toastTimers >>
        /\ Rederive
        /\ Effects(ss, "SaveResolved", saves[i], SelectedIndex)

\* SaveKaomoji rejected (lines 484-486)
SaveRejected(ss) ==
    \E i \in Indices(saves) :
        /\ saves' = RemoveAt(saves, i)
        /\ UNCHANGED << KaomojiList, RecentKaomojis, SearchQuery, LastCopied,
                        LastCopiedIndex, ShowToast, ShowAddModal, GridCols,
                        FilteredResults, loadPending, copies, toastTimers >>
        /\ Effects(ss, "SaveRejected", saves[i], SelectedIndex)

\* the session lets one more CopyToClipboard call start
CanCommit(ss) ==
    IF ss.keep THEN Len(copies) < ss.commits
    ELSE Len(copies) + toastTimers < ss.commits

\* HandleKeyDown with ArrowRight and ArrowLeft stopping at the ends
KeyDownEndsStop(key, isTyping, modal, selected, query, itemsCount, cols) ==
    LET same == [modal |-> modal, selected |-> selected, query |-> query,
                 copy |-> FALSE]
    IN  IF modal THEN [same EXCEPT !.modal = (key # "Escape")]
        ELSE IF isTyping /\ key \in NavKeys THEN same
        ELSE IF itemsCount = 0 THEN same
        ELSE CASE key = "ArrowRight" ->
                      [same EXCEPT !.selected = Min(selected + 1, itemsCount - 1)]
               [] key = "ArrowLeft" ->
                      [same EXCEPT !.selected = Max(selected - 1, 0)]
               [] key = "ArrowDown" ->
                      [same EXCEPT !.selected = Min(selected + cols, itemsCount - 1)]
               [] key = "ArrowUp" ->
                      [same EXCEPT !.selected = Max(selected - cols, 0)]
               [] key = "Enter" ->
                      [same EXCEPT !.copy = (selected + 1 \in 1..itemsCount)]
               [] key = "Escape" ->
                      [same EXCEPT !.query = <<>>]
               [] OTHER -> same

\* HandleKeyDown with ArrowDown and ArrowUp wrapping around
KeyDownRowsWrap(key, isTyping, modal, selected, query, itemsCount, cols) ==
    LET same == [modal |-> modal, selected |-> selected, query |-> query,
                 copy |-> FALSE]
    IN  IF modal THEN [same EXCEPT !.modal = (key # "Escape")]
        ELSE IF isTyping /\ key \in NavKeys THEN same
        ELSE IF itemsCount = 0 THEN same
        ELSE CASE key = "ArrowRight" ->
                      [same EXCEPT !.selected = (selected + 1) % itemsCount]
               [] key = "ArrowLeft" ->
                      [same EXCEPT !.selected = (selected - 1 + itemsCount) % itemsCount]
               [] key = "ArrowDown" ->
                      [same EXCEPT !.selected = (selected + cols) % itemsCount]
               [] key = "ArrowUp" ->
                      [same EXCEPT !.selected = (selected - cols + cols * itemsCount) % itemsCount]
               [] key = "Enter" ->
                      [same EXCEPT !.copy = (selected + 1 \in 1..itemsCount)]
               [] key = "Escape" ->
                      [same EXCEPT !.query = <<>>]
               [] OTHER -> same

\* HandleKeyDown (lines 489-548): what it leaves in ShowAddModal,
\* SelectedIndex and SearchQuery, and whether it calls CopyToClipboard
KeyDown(key, isTyping, modal, selected, query, itemsCount, cols) ==
    LET same == [modal |-> modal, selected |-> selected, query |-> query,
                 copy |-> FALSE]
    IN  IF modal THEN [same EXCEPT !.modal = (key # "Escape")]
        ELSE IF isTyping /\ key \in NavKeys THEN same
        ELSE IF itemsCount = 0 THEN same
        ELSE CASE key = "ArrowRight" ->
                      [same EXCEPT !.selected = (selected + 1) % itemsCount]
               [] key = "ArrowLeft" ->
                      [same EXCEPT !.selected = (selected - 1 + itemsCount) % itemsCount]
               [] key = "ArrowDown" ->
                      [same EXCEPT !.selected = Min(selected + cols, itemsCount - 1)]
               [] key = "ArrowUp" ->
                      [same EXCEPT !.selected = Max(selected - cols, 0)]
               [] key = "Enter" ->
                      [same EXCEPT !.copy = (selected + 1 \in 1..itemsCount)]
               [] key = "Escape" ->
                      [same EXCEPT !.query = <<>>]
               [] OTHER -> same

\* svelte:window onkeydown (line 563)
HandleKeyDown(ss) ==
    \E event \in KeyEvents :
        LET out == KeyDown(event.key, event.isTyping, ShowAddModal, SelectedIndex, SearchQuery,
                           Len(FilteredResults), GridCols)
        IN  /\ out.copy => CanCommit(ss)
            /\ ShowAddModal' = out.modal
            /\ SearchQuery' = out.query
            /\ copies' = IF out.copy
                         THEN Append(copies,
                                  StartCopy(FilteredResults[SelectedIndex + 1].Character,
                                            SelectedIndex))
                         ELSE copies
            /\ UNCHANGED << KaomojiList, RecentKaomojis, LastCopied, LastCopiedIndex,
                            ShowToast, GridCols, loadPending, saves, toastTimers >>
            /\ IF out.query = SearchQuery THEN UNCHANGED FilteredResults ELSE Rederive
            /\ Effects(ss, "HandleKeyDown", event, out.selected)

\* the card's onclick taking the card's position counted from 1
ClickCardOneBased(ss) ==
    \E i \in 0..(Len(FilteredResults) - 1) :
        /\ CanCommit(ss)
        /\ copies' = Append(copies, StartCopy(FilteredResults[i + 1].Character, i))
        /\ UNCHANGED << KaomojiList, RecentKaomojis, SearchQuery, LastCopied,
                        LastCopiedIndex, ShowToast, ShowAddModal, GridCols,
                        FilteredResults, loadPending, saves, toastTimers >>
        /\ Effects(ss, "ClickCard", i, i + 1)

\* onclick of a KaomojiCard (lines 607-610)
ClickCard(ss) ==
    \E i \in 0..(Len(FilteredResults) - 1) :
        /\ CanCommit(ss)
        /\ copies' = Append(copies, StartCopy(FilteredResults[i + 1].Character, i))
        /\ UNCHANGED << KaomojiList, RecentKaomojis, SearchQuery, LastCopied,
                        LastCopiedIndex, ShowToast, ShowAddModal, GridCols,
                        FilteredResults, loadPending, saves, toastTimers >>
        /\ Effects(ss, "ClickCard", i, i)

\* onclick of a RecentItem (lines 584-592): shown while SearchQuery is empty
ClickRecent(ss) ==
    \E r \in Indices(RecentKaomojis) :
        /\ SearchQuery = <<>>
        /\ CanCommit(ss)
        /\ copies' = Append(copies, StartCopy(RecentKaomojis[r].Character, -1))
        /\ UNCHANGED << KaomojiList, RecentKaomojis, SearchQuery, LastCopied,
                        LastCopiedIndex, ShowToast, ShowAddModal, GridCols,
                        FilteredResults, loadPending, saves, toastTimers >>
        /\ Effects(ss, "ClickRecent", r, SelectedIndex)

\* CopyToClipboard with AddToRecents ahead of the test of successState
AfterWritesRecordsAlways(p, list, recents, lastCopied, lastCopiedIndex, showToast) ==
    LET at    == FindIndex(list, p.character)
        added == IF at # 0 THEN AddToRecents(recents, list[at]) ELSE recents
    IN  IF p.pc = "copied"
        THEN [recents         |-> added,
              lastCopied      |-> p.character,
              lastCopiedIndex |-> p.index,
              showToast       |-> TRUE,
              timers          |-> 1]
        ELSE [recents         |-> added,
              lastCopied      |-> lastCopied,
              lastCopiedIndex |-> lastCopiedIndex,
              showToast       |-> showToast,
              timers          |-> 0]

\* CopyToClipboard calling HandleCopySuccess without AddToRecents
AfterWritesSignalsOnly(p, list, recents, lastCopied, lastCopiedIndex, showToast) ==
    IF p.pc = "copied"
    THEN [recents         |-> recents,
          lastCopied      |-> p.character,
          lastCopiedIndex |-> p.index,
          showToast       |-> TRUE,
          timers          |-> 1]
    ELSE [recents         |-> recents,
          lastCopied      |-> lastCopied,
          lastCopiedIndex |-> lastCopiedIndex,
          showToast       |-> showToast,
          timers          |-> 0]

\* CopyToClipboard once its writes are over (lines 421-427), with
\* HandleCopySuccess (437-448) up to its tick: what it leaves in
\* RecentKaomojis, LastCopied, LastCopiedIndex and ShowToast, and the timers
\* it starts.  successState is p.pc = "copied".
AfterWrites(p, list, recents, lastCopied, lastCopiedIndex, showToast) ==
    IF p.pc = "copied"
    THEN LET at == FindIndex(list, p.character)
         IN  [recents         |-> IF at # 0 THEN AddToRecents(recents, list[at])
                                  ELSE recents,
              lastCopied      |-> p.character,
              lastCopiedIndex |-> p.index,
              showToast       |-> TRUE,
              timers          |-> 1]
    ELSE [recents         |-> recents,
          lastCopied      |-> lastCopied,
          lastCopiedIndex |-> lastCopiedIndex,
          showToast       |-> showToast,
          timers          |-> 0]

\* the i-th CopyToClipboard call runs from its last await to its end as p
FinishCopy(ss, op, i, p) ==
    LET out == AfterWrites(p, KaomojiList, RecentKaomojis, LastCopied,
                           LastCopiedIndex, ShowToast)
    IN  /\ copies' = IF ss.keep THEN [copies EXCEPT ![i] = p] ELSE RemoveAt(copies, i)
        /\ RecentKaomojis' = out.recents
        /\ LastCopied' = out.lastCopied
        /\ LastCopiedIndex' = out.lastCopiedIndex
        /\ ShowToast' = out.showToast
        /\ toastTimers' = toastTimers + out.timers
        /\ UNCHANGED << KaomojiList, SearchQuery, ShowAddModal, GridCols,
                        FilteredResults, loadPending, saves >>
        /\ Effects(ss, op, i, SelectedIndex)

\* invoke("CopyToClipboard") resolved (line 407)
NativeResolved(ss) ==
    \E i \in Indices(copies) :
        /\ copies[i].pc = "native"
        /\ FinishCopy(ss, "NativeResolved", i, OnWriteResolved(copies[i]))

\* invoke("CopyToClipboard") rejected: the fallback is invoked (lines 408-414)
NativeRejected(ss) ==
    \E i \in Indices(copies) :
        /\ copies[i].pc = "native"
        /\ copies' = [copies EXCEPT ![i] = OnNativeRejected(copies[i])]
        /\ UNCHANGED << KaomojiList, RecentKaomojis, SearchQuery, LastCopied,
                        LastCopiedIndex, ShowToast, ShowAddModal, GridCols,
                        FilteredResults, loadPending, saves, toastTimers >>
        /\ Effects(ss, "NativeRejected", i, SelectedIndex)

\* navigator.clipboard.writeText resolved (line 415)
NavigatorResolved(ss) ==
    \E i \in Indices(copies) :
        /\ copies[i].pc = "navigator"
        /\ FinishCopy(ss, "NavigatorResolved", i, OnWriteResolved(copies[i]))

\* navigator.clipboard.writeText rejected (lines 416-418)
NavigatorRejected(ss) ==
    \E i \in Indices(copies) :
        /\ copies[i].pc = "navigator"
        /\ FinishCopy(ss, "NavigatorRejected", i, OnNavigatorRejected(copies[i]))

\* the setTimeout callback of HandleCopySuccess (lines 443-446)
ToastTimeout(ss) ==
    /\ toastTimers > 0
    /\ toastTimers' = toastTimers - 1
    /\ ShowToast' = FALSE
    /\ LastCopiedIndex' = -1
    /\ UNCHANGED << KaomojiList, RecentKaomojis, SearchQuery, LastCopied,
                    ShowAddModal, GridCols, FilteredResults, loadPending, saves,
                    copies >>
    /\ Effects(ss, "ToastTimeout", <<>>, SelectedIndex)

\* the search box and the keyboard
NextUI(ss) ==
    \/ SetQuery(ss)
    \/ HandleKeyDown(ss)

\* the startup load and the add dialog
NextCatalog(ss) ==
    \/ OpenModal(ss)
    \/ CloseModal(ss)
    \/ LoadResolved(ss)
    \/ LoadRejected(ss)
    \/ SubmitNewKaomoji(ss)
    \/ SaveResolved(ss)
    \/ SaveRejected(ss)

\* the commits and their clipboard writes
NextCopy(ss) ==
    \/ ClickCard(ss)
    \/ ClickRecent(ss)
    \/ NativeResolved(ss)
    \/ NativeRejected(ss)
    \/ NavigatorResolved(ss)
    \/ NavigatorRejected(ss)
    \/ ToastTimeout(ss)

\* every handler, in a session with few commits
Next ==
    \/ NextUI(FullSession)
    \/ Resize(FullSession)
    \/ NextCatalog(FullSession)
    \/ NextCopy(FullSession)

Spec == Init /\ [][Next]_vars

\* a session in which nothing is copied
NextEdit ==
    \/ NextUI(CatalogSession)
    \/ Resize(CatalogSession)
    \/ NextCatalog(CatalogSession)

SpecCatalog == Init /\ [][NextEdit]_vars

\* a session in which the catalog stays as bundled and the window as it is
NextCommit == NextUI(CopySession) \/ NextCopy(CopySession)

SpecCopy == Init /\ [][NextCommit]_vars


(***************************************************************************)
(* The derived list as a function of the catalog and the query             *)
(***************************************************************************)

MaxCatalog == 3

EntryPool ==
    { KaomojiDataRaw[1], KaomojiDataRaw[2],
      KaomojiEntry(G3, << <<"h">>, <<"s">> >>, <<"J">>) }

\* the bundled lists: sequences of entries with distinct Characters
BundledCatalogs ==
    {q \in SeqsUpTo(EntryPool, MaxCatalog) :
         \A i, j \in Indices(q) : q[i].Character = q[j].Character => i = j}

QueryTagH == <<"t", "a", "g", ":", "h">>
QueryTagCat == <<"t", "a", "g", ":", "S", " ", "c", "a", "t", ":", "s">>
QueryPunct == <<" ", "c", "a", "t", ":", "j", "!">>
QueryResidual == <<"c", "a", "t", ":", "S", " ", "x">>
QueryBare == <<"t", "a", "g", ":">>
QueryMidWord == <<"x", "c", "a", "t", ":", "S">>
QueryCatNoValue == <<"c", "a", "t", ":", "!">>
QueryTagNoValue == <<"t", "a", "g", ":", "!", "!">>
QueryNoValueAfter == <<"c", "a", "t", ":", "j", " ", "t", "a", "g", ":", "!">>
QueryNoValueResidual == <<"c", "a", "t", ":", "!", " ", "h">>

ParseSession ==
    [queries |-> Queries \cup {QueryTagH, QueryTagCat, QueryPunct, QueryResidual,
                               QueryBare, QueryMidWord, QueryCatNoValue,
                               QueryTagNoValue, QueryNoValueAfter,
                               QueryNoValueResidual},
     forms |-> {}, loads |-> {}, saves |-> 0, commits |-> 0, keep |-> TRUE, record |-> TRUE]

InitParse == \E list \in BundledCatalogs : Mounted(list)

NextParse == SetQuery(ParseSession)

SpecParse == InitParse /\ [][NextParse]_vars

(***************************************************************************)
(* Properties                                                              *)
(***************************************************************************)

\* C1: in every reachable state the cursor SelectedIndex is 0 when
\* FilteredResults is empty and within 0 .. Len(FilteredResults) - 1 when it
\* is not, whatever queries, merges, upserts, column changes, keys and
\* clicks led there.
CursorInRange ==
    IF FilteredResults = <<>>
    THEN SelectedIndex = 0
    ELSE SelectedIndex \in 0..(Len(FilteredResults) - 1)

\* a query narrowed a catalog grown by the load to two results, with the
\* cursor on the last of them
CursorOnLastOfNarrowed ==
    /\ ~loadPending
    /\ Len(KaomojiList) > Len(KaomojiDataRaw)
    /\ SearchQuery # <<>>
    /\ Len(FilteredResults) = 2
    /\ SelectedIndex = 1

\* C2: every step that changes FilteredResults leaves the cursor re-clamped
\* against the new length: 0 if the new list is empty, its last index if the
\* cursor was at or past the new length, and the cursor unchanged otherwise.
\* The step is the whole handler, so no later event sees an unclamped cursor.
ReclampOnChange ==
    [][ FilteredResults' # FilteredResults =>
            LET newLen == Len(FilteredResults')
            IN  SelectedIndex' = IF newLen = 0 THEN 0
                                 ELSE IF SelectedIndex >= newLen THEN newLen - 1
                                 ELSE SelectedIndex ]_vars

\* a query change shrank the list under the cursor, which moved to the new
\* last index and not to 0
ClampedToLast ==
    /\ last.op = "SetQuery"
    /\ last.clamped
    /\ SelectedIndex > 0
    /\ SelectedIndex = Len(FilteredResults) - 1

\* what a query made of cat:/tag: tokens alone asks for: its words, the
\* predicate of a word, and the entries meeting all of them
RECURSIVE Words(_)
Words(s) ==
    LET t == TrimStart(s)
    IN  IF t = <<>> THEN <<>>
        ELSE LET stop == IF \E i \in 1..Len(t) : IsSpace(t[i])
                         THEN CHOOSE i \in 1..Len(t) :
                                  /\ IsSpace(t[i])
                                  /\ \A j \in 1..(i - 1) : ~IsSpace(t[j])
                         ELSE Len(t) + 1
             IN  <<SubSeq(t, 1, stop - 1)>> \o Words(SubSeq(t, stop, Len(t)))

IsCatToken(w) == Len(w) > 4 /\ SubSeq(w, 1, 4) = <<"c", "a", "t", ":">>
IsTagToken(w) == Len(w) > 4 /\ SubSeq(w, 1, 4) = <<"t", "a", "g", ":">>

TokensOnly(query) ==
    /\ Words(query) # <<>>
    /\ \A i \in Indices(Words(query)) :
           IsCatToken(Words(query)[i]) \/ IsTagToken(Words(query)[i])

Satisfies(entry, w) ==
    LET wanted == Sanitize(SubSeq(w, 5, Len(w)))
    IN  IF IsCatToken(w)
        THEN ToLowerCase(entry.Category) = wanted
        ELSE \E t \in Indices(entry.Tags) : ToLowerCase(entry.Tags[t]) = wanted

\* C3: for a query made only of cat:/tag: tokens, FilteredResults is the
\* sub-sequence of KaomojiList, in its order, of the entries that satisfy
\* every token.
TokensFilterExactly ==
    TokensOnly(SearchQuery) =>
        FilteredResults =
            SelectSeq(KaomojiList,
                      LAMBDA k : \A i \in Indices(Words(SearchQuery)) :
                                     Satisfies(k, Words(SearchQuery)[i]))

\* C4: KaomojiList never holds two entries with the same Character.
NoDuplicateGlyphs ==
    \A i, j \in Indices(KaomojiList) :
        KaomojiList[i].Character = KaomojiList[j].Character => i = j

\* C5: KaomojiList is not changed by SubmitNewKaomoji before its await nor
\* by the rejection of SaveKaomoji; of the dialog's steps only the
\* resolution of SaveKaomoji changes it.
UpsertOnlyAfterSave ==
    [][ /\ last'.op \in {"SubmitNewKaomoji", "SaveRejected", "OpenModal", "CloseModal"}
            => KaomojiList' = KaomojiList
        /\ KaomojiList' # KaomojiList
            => last'.op \in {"SaveResolved", "LoadResolved"} ]_vars

\* a save of an entry for a Character of the catalog was rejected, and the
\* catalog still holds the entry it had
RejectedSaveLeftCatalog ==
    /\ last.op = "SaveRejected"
    /\ \E i \in Indices(KaomojiList) :
           /\ KaomojiList[i].Character = last.arg.Character
           /\ KaomojiList[i] # last.arg

\* C6: the upsert of SaveKaomoji's resolution, for an entry whose Character
\* is in KaomojiList, puts the entry at the position of that Character and
\* leaves the length and every other position as they were; for a Character
\* not in KaomojiList it appends the entry and leaves the rest as it was.
UpsertInPlaceOrAppend ==
    [][ last'.op = "SaveResolved" =>
            LET entry == last'.arg
                held  == {i \in Indices(KaomojiList) :
                              KaomojiList[i].Character = entry.Character}
            IN  IF held # {}
                THEN LET at == CHOOSE i \in held : \A j \in held : i <= j
                     IN  /\ Len(KaomojiList') = Len(KaomojiList)
                         /\ KaomojiList'[at] = entry
                         /\ \A j \in Indices(KaomojiList) :
                                j # at => KaomojiList'[j] = KaomojiList[j]
                ELSE /\ Len(KaomojiList') = Len(KaomojiList) + 1
                     /\ KaomojiList'[Len(KaomojiList')] = entry
                     /\ \A j \in Indices(KaomojiList) :
                            KaomojiList'[j] = KaomojiList[j] ]_vars

\* a save replaced the first entry of a catalog of several with new tags
\* and category
ReplacedFirstInPlace ==
    /\ last.op = "SaveResolved"
    /\ Len(KaomojiList) >= 2
    /\ KaomojiList[1] = last.arg
    /\ KaomojiList[1] # KaomojiDataRaw[1]
    /\ KaomojiList[2] = KaomojiDataRaw[2]

\* the entries of items whose Character is not in present, in their order
RECURSIVE NotPresent(_, _)
NotPresent(items, present) ==
    IF items = <<>> THEN <<>>
    ELSE (IF Head(items).Character \in present THEN <<>> ELSE <<Head(items)>>)
             \o NotPresent(Tail(items), present)

\* C7: the merge of the load's resolution leaves KaomojiList as a prefix,
\* entry for entry, followed by the loaded entries whose Character it did
\* not hold, in the order they were loaded.
MergeAppendsNew ==
    [][ last'.op = "LoadResolved" =>
            LET present == {KaomojiList[i].Character : i \in Indices(KaomojiList)}
            IN  KaomojiList' = KaomojiList \o NotPresent(last'.arg, present) ]_vars

\* a load of one entry whose Character the catalog held and one it did not:
\* the first kept as it was, the second appended
MergedOneOfTwo ==
    /\ last.op = "LoadResolved"
    /\ Len(last.arg) = 2
    /\ last.arg[1].Character = G2
    /\ last.arg[2].Character = G3
    /\ Len(KaomojiList) = Len(KaomojiDataRaw) + 1
    /\ KaomojiList[2] = KaomojiDataRaw[2]
    /\ KaomojiList[2] # last.arg[1]
    /\ KaomojiList[3] = last.arg[2]

\* the step in which the fallback write of the i-th commit is rejected
BothWritesFail(i) ==
    /\ i \in Indices(copies)
    /\ copies[i].pc = "navigator"
    /\ copies'[i].pc = "failed"

\* C8: the step in which the fallback write of a commit is rejected, its
\* primary write having been rejected before, leaves RecentKaomojis as it
\* was.
FailedCommitKeepsRecents ==
    [][ (\E i \in Indices(copies) : BothWritesFail(i)) =>
            RecentKaomojis' = RecentKaomojis ]_vars

\* a commit of an entry of the catalog failed on both writes after another
\* commit had put a different entry in the recents
FailedAfterRecorded ==
    \E i \in Indices(copies) :
        /\ copies[i].pc = "failed"
        /\ FindIndex(KaomojiList, copies[i].character) # 0
        /\ RecentKaomojis # <<>>
        /\ \A r \in Indices(RecentKaomojis) :
               RecentKaomojis[r].Character # copies[i].character

\* the state the markup reads
Rendered ==
    << KaomojiList, RecentKaomojis, SearchQuery, LastCopied, LastCopiedIndex,
       ShowToast, ShowAddModal, SelectedIndex, GridCols, FilteredResults >>

\* C9: the step in which the fallback write of a commit is rejected, its
\* primary write having been rejected before, changes some state the UI
\* can read, so that a failed commit is told from no commit.
FailedCommitSignals ==
    [][ (\E i \in Indices(copies) : BothWritesFail(i)) =>
            Rendered' # Rendered ]_vars

\* C10: a commit invokes the native write once; it invokes the navigator
\* write once when the native write is rejected and not at all when it
\* resolves; and once ended it invokes nothing more.
WritesPerCommit ==
    /\ [](\A i \in Indices(copies) :
              /\ copies[i].nativeWrites = 1
              /\ copies[i].navigatorWrites \in {0, 1}
              /\ copies[i].pc = "native" => copies[i].navigatorWrites = 0
              /\ copies[i].pc \in {"navigator", "failed"} =>
                     copies[i].navigatorWrites = 1)
    /\ [][ \A i \in Indices(copies) :
              /\ (copies[i].pc = "native" /\ copies'[i].pc = "copied")
                     => copies'[i].navigatorWrites = 0
              /\ (copies[i].pc = "native" /\ copies'[i].pc = "navigator")
                     => copies'[i].navigatorWrites = 1
              /\ copies[i].pc \in {"copied", "failed"}
                     => copies'[i] = copies[i] ]_vars

\* one commit ended on its native write alone and another after both writes
OneWriteAndTwoWrites ==
    \E i, j \in Indices(copies) :
        /\ copies[i].pc = "copied"
        /\ copies[i].nativeWrites = 1
        /\ copies[i].navigatorWrites = 0
        /\ copies[j].pc \in {"copied", "failed"}
        /\ copies[j].nativeWrites = 1
        /\ copies[j].navigatorWrites = 1

\* the step in which a write of the i-th commit resolves
WriteSucceeds(i) ==
    /\ i \in Indices(copies)
    /\ copies[i].pc \in {"native", "navigator"}
    /\ copies'[i].pc = "copied"

\* C11: the step in which the native or the navigator write of a commit
\* resolves leaves the entry of the committed Character at the front of
\* RecentKaomojis, and LastCopied and LastCopiedIndex at the Character and
\* the index the commit was issued with; the record and the signal are made
\* in one run of CopyToClipboard, so no state shows the signal without the
\* record.
SuccessRecordsThenSignals ==
    [][ \A i \in Indices(copies) :
            WriteSucceeds(i) =>
                /\ RecentKaomojis' # <<>>
                /\ RecentKaomojis'[1].Character = copies[i].character
                /\ RecentKaomojis'[1] \in {KaomojiList[k] : k \in Indices(KaomojiList)}
                /\ LastCopied' = copies[i].character
                /\ LastCopiedIndex' = copies[i].index ]_vars

\* a commit issued from the second card succeeded on the fallback write
\* after another entry had been recorded
FallbackSuccessSignalled ==
    \E i \in Indices(copies) :
        /\ copies[i].pc = "copied"
        /\ copies[i].navigatorWrites = 1
        /\ copies[i].index = 1
        /\ Len(RecentKaomojis) = 2
        /\ RecentKaomojis[1].Character = copies[i].character
        /\ LastCopied = copies[i].character
        /\ LastCopiedIndex = 1

(***************************************************************************)
(* Commits against a list of recents that is nearly or wholly full         *)
(***************************************************************************)

\* the entries of the catalog beyond the eight that RecentKaomojis can hold
MaxOverCapacity == 1

GlyphRow == <<"0", "1", "2", "3", "4", "5", "6", "7", "8", "9">>

LongCatalog ==
    [i \in 1..(8 + MaxOverCapacity) |->
        KaomojiEntry(<<GlyphRow[i]>>, << <<"h">> >>, <<"J">>)]

\* the lists earlier commits have left in RecentKaomojis: the runs of at
\* most eight entries of the catalog, taken cyclically
RecentsLists ==
    {[k \in 1..n |-> LongCatalog[((start + k - 2) % Len(LongCatalog)) + 1]] :
         start \in Indices(LongCatalog), n \in 0..8}

RecentsSession ==
    [queries |-> {}, forms |-> {}, loads |-> {}, saves |-> 0,
     commits |-> 1, keep |-> TRUE, record |-> FALSE]

\* the component some commits after it was mounted, the toasts of those
\* commits over; copies lists the calls made from here on
InitRecents ==
    \E recents \in RecentsLists :
        /\ KaomojiList = LongCatalog
        /\ RecentKaomojis = recents
        /\ SearchQuery = <<>>
        /\ LastCopied = IF recents = <<>> THEN <<>> ELSE recents[1].Character
        /\ LastCopiedIndex = -1
        /\ ShowToast = FALSE
        /\ ShowAddModal = FALSE
        /\ SelectedIndex = 0
        /\ GridCols = 3
        /\ FilteredResults = ComputeFilteredResults(LongCatalog, <<>>)
        /\ loadPending = FALSE
        /\ saves = <<>>
        /\ copies = <<>>
        /\ toastTimers = 0
        /\ last = NoHandler

NextRecents == NextCopy(RecentsSession)

SpecRecents == InitRecents /\ [][NextRecents]_vars

\* C12: RecentKaomojis never holds two entries with the same Character and
\* never more than 8 entries.
RecentsDistinctAndCapped ==
    /\ Len(RecentKaomojis) <= 8
    /\ \A i, j \in Indices(RecentKaomojis) :
           RecentKaomojis[i].Character = RecentKaomojis[j].Character => i = j

\* a commit of the ninth entry of the catalog succeeded, and the recents
\* hold it ahead of seven of the first eight
NinthRecordedInFull ==
    /\ copies # <<>>
    /\ copies[1].pc = "copied"
    /\ copies[1].character = <<GlyphRow[9]>>
    /\ Len(RecentKaomojis) = 8
    /\ RecentKaomojis[1].Character = <<GlyphRow[9]>>
    /\ \A k \in 2..8 : RecentKaomojis[k].Character = <<GlyphRow[k - 1]>>

\* seq without the entries of the Character given
Without(seq, character) == SelectSeq(seq, LAMBDA k : k.Character # character)

\* C13: the step in which a write of a commit resolves leaves the entry of
\* the committed Character at the front of RecentKaomojis, followed by the
\* other entries it held in the order they had (as many as the capacity
\* keeps); when RecentKaomojis held an entry of that Character already, and
\* so on a second record of it, its length is unchanged.
RecordMovesToFront ==
    [][ \A i \in Indices(copies) :
            WriteSucceeds(i) =>
                LET others == Without(RecentKaomojis, copies[i].character)
                    rest   == Tail(RecentKaomojis')
                IN  /\ RecentKaomojis'[1].Character = copies[i].character
                    /\ Len(rest) <= Len(others)
                    /\ rest = SubSeq(others, 1, Len(rest))
                    /\ Len(rest) = Len(others) \/ Len(RecentKaomojis') = 8
                    /\ Len(others) < Len(RecentKaomojis)
                           => Len(RecentKaomojis') = Len(RecentKaomojis) ]_vars

\* a commit of the entry third in the recents succeeded: it is at the
\* front, the two that were ahead of it follow in their order, and the
\* length is what it was
ThirdMovedToFront ==
    /\ copies # <<>>
    /\ copies[1].pc = "copied"
    /\ copies[1].character = <<GlyphRow[3]>>
    /\ Len(RecentKaomojis) = 4
    /\ RecentKaomojis[1].Character = <<GlyphRow[3]>>
    /\ RecentKaomojis[2].Character = <<GlyphRow[1]>>
    /\ RecentKaomojis[3].Character = <<GlyphRow[2]>>
    /\ RecentKaomojis[4].Character = <<GlyphRow[4]>>

\* C14: whenever SearchQuery is empty once trimmed, FilteredResults is
\* KaomojiList, entry for entry and in its order, also after the load's
\* merge and the upserts have changed KaomojiList.
EmptyQueryShowsCatalog ==
    Trim(SearchQuery) = <<>> => FilteredResults = KaomojiList

\* under a query of spaces, and the load over, an upsert appended an entry
\* to the catalog, and the results hold it
BlankQueryAfterUpsert ==
    /\ SearchQuery = QueryBlank
    /\ last.op = "SaveResolved"
    /\ ~loadPending
    /\ Len(KaomojiList) = Len(KaomojiDataRaw) + 1
    /\ KaomojiList[Len(KaomojiList)] = last.arg
    /\ FilteredResults[Len(FilteredResults)] = last.arg

\* the step is HandleKeyDown for the key given, outside an input, with the
\* dialog closed and results to move over
KeyStep(key) ==
    /\ last'.op = "HandleKeyDown"
    /\ last'.arg.key = key
    /\ ~last'.arg.isTyping
    /\ ~ShowAddModal
    /\ FilteredResults # <<>>

\* C15: over a non-empty FilteredResults of length len, ArrowRight leaves
\* SelectedIndex at (SelectedIndex + 1) mod len, so at 0 from the last
\* index, and ArrowLeft at (SelectedIndex - 1) mod len, so at len - 1 from 0.
HorizontalWraps ==
    [][ LET len == Len(FilteredResults)
        IN  /\ KeyStep("ArrowRight") =>
                   SelectedIndex' = IF SelectedIndex = len - 1 THEN 0
                                    ELSE SelectedIndex + 1
            /\ KeyStep("ArrowLeft") =>
                   SelectedIndex' = IF SelectedIndex = 0 THEN len - 1
                                    ELSE SelectedIndex - 1 ]_vars

\* ArrowRight over three or more results left the cursor at 0, which it can
\* only reach from the last index
WrappedToFirst ==
    /\ last.op = "HandleKeyDown"
    /\ last.arg.key = "ArrowRight"
    /\ ~last.arg.isTyping
    /\ ~ShowAddModal
    /\ Len(FilteredResults) >= 3
    /\ SelectedIndex = 0

\* C16: over a non-empty FilteredResults of length len, ArrowDown adds
\* GridCols to SelectedIndex and ArrowUp subtracts it, stopping at len - 1
\* and at 0 without wrapping, so SelectedIndex stays within 0 .. len - 1
\* for every column count and every index it starts from.
VerticalClamps ==
    [][ LET len == Len(FilteredResults)
        IN  /\ KeyStep("ArrowDown") =>
                   /\ SelectedIndex' = IF SelectedIndex + GridCols > len - 1
                                       THEN len - 1
                                       ELSE SelectedIndex + GridCols
                   /\ SelectedIndex' \in 0..(len - 1)
            /\ KeyStep("ArrowUp") =>
                   /\ SelectedIndex' = IF SelectedIndex - GridCols < 0
                                       THEN 0
                                       ELSE SelectedIndex - GridCols
                   /\ SelectedIndex' \in 0..(len - 1) ]_vars

\* ArrowDown over three results in three columns left the cursor on the
\* last of them, short of a full row from wherever it started
StoppedAtLast ==
    /\ last.op = "HandleKeyDown"
    /\ last.arg.key = "ArrowDown"
    /\ ~last.arg.isTyping
    /\ ~ShowAddModal
    /\ GridCols = 3
    /\ Len(FilteredResults) = 3
    /\ SelectedIndex = 2

(***************************************************************************)
(* Pointer selections over the lists the search box and the load produce   *)
(***************************************************************************)

PointerSession ==
    [queries |-> {<<>>, <<"x">>, QueryCatS}, forms |-> {},
     loads |-> SeqsUpTo(UserPool, 1), saves |-> 0,
     commits |-> 1, keep |-> FALSE, record |-> TRUE]

NextPointer ==
    \/ NextUI(PointerSession)
    \/ LoadResolved(PointerSession)
    \/ LoadRejected(PointerSession)
    \/ NextCopy(PointerSession)

SpecPointer == Init /\ [][NextPointer]_vars

EscapeClearsQuery ==
    [][ (/\ last'.op = "HandleKeyDown"
         /\ last'.arg.key = "Escape"
         /\ ~ShowAddModal) => SearchQuery' = <<>> ]_vars

(***************************************************************************)
(* A session whose LoadUserKaomojis rejects                                *)
(***************************************************************************)

LoadFailSession ==
    [queries |-> {<<>>, <<"x">>, QueryCatS},
     forms |-> {f \in Forms : Trim(f.NewCharacter) # <<>>},
     loads |-> {}, saves |-> 1, commits |-> 1, keep |-> FALSE, record |-> FALSE]

NextLoadFails ==
    \/ NextUI(LoadFailSession)
    \/ Resize(LoadFailSession)
    \/ OpenModal(LoadFailSession)
    \/ CloseModal(LoadFailSession)
    \/ LoadRejected(LoadFailSession)
    \/ SubmitNewKaomoji(LoadFailSession)
    \/ SaveResolved(LoadFailSession)
    \/ SaveRejected(LoadFailSession)
    \/ NextCopy(LoadFailSession)

SpecLoadFails == Init /\ [][NextLoadFails]_vars

\* the entries the forms of the session save
SavedEntries == {FormEntry(f) : f \in LoadFailSession.forms}

\* KaomojiList is the bundled list with upserts applied: each bundled
\* position holds the bundled entry or a saved entry of its Character, and
\* the positions after hold saved entries
BundledPlusUpserts ==
    /\ Len(KaomojiList) >= Len(KaomojiDataRaw)
    /\ \A i \in Indices(KaomojiList) :
           IF i <= Len(KaomojiDataRaw)
           THEN \/ KaomojiList[i] = KaomojiDataRaw[i]
                \/ /\ KaomojiList[i] \in SavedEntries
                   /\ KaomojiList[i].Character = KaomojiDataRaw[i].Character
           ELSE KaomojiList[i] \in SavedEntries

\* the handlers of the page can run
HandlersEnabled ==
    /\ ENABLED SetQuery(LoadFailSession)
    /\ ENABLED HandleKeyDown(LoadFailSession)
    /\ ENABLED Resize(LoadFailSession)
    /\ ENABLED OpenModal(LoadFailSession)
    /\ (ShowAddModal /\ saves = <<>>) => ENABLED SubmitNewKaomoji(LoadFailSession)
    /\ (FilteredResults # <<>> /\ CanCommit(LoadFailSession))
           => ENABLED ClickCard(LoadFailSession)
    /\ \A i \in Indices(copies) :
           copies[i].pc = "native" => ENABLED NativeResolved(LoadFailSession)

\* C19: in a session whose LoadUserKaomojis rejects, KaomojiList is, before
\* and after the rejection, the bundled list with the upserts saved so far
\* applied; the rejection sets no state that a handler tests, and the
\* query, key, card and dialog handlers can still run after it.
LoadFailureKeepsSession ==
    /\ BundledPlusUpserts
    /\ ~loadPending => HandlersEnabled

\* the load rejected; since the mount one upsert replaced the first bundled
\* entry and another appended an entry, a query was typed and a commit
\* succeeded
WorkedOnAfterLoadFailure ==
    /\ ~loadPending
    /\ Len(KaomojiList) = Len(KaomojiDataRaw) + 1
    /\ KaomojiList[1] # KaomojiDataRaw[1]
    /\ SearchQuery = QueryCatS
    /\ RecentKaomojis # <<>>
    /\ RecentKaomojis[1] = KaomojiList[3]

\* query from position from on, without the text of the matches of the
\* token expression
RECURSIVE CutTokens(_, _)
CutTokens(query, from) ==
    LET match == RegexExec(query, from)
    IN  IF ~match.found THEN SubSeq(query, from, Len(query))
        ELSE SubSeq(query, from, match.lastIndex - Len(match.fullMatch) - 1)
                 \o CutTokens(query, match.lastIndex)

\* C20: the remainingQuery the token loop ends with is the trimmed query
\* with the text of every match of the token expression (the token and the
\* space before it) cut out, trimmed; so a query made of tokens alone ends
\* with an empty remainingQuery and gives Fuse nothing to search.
ResidualIsQueryWithoutTokens ==
    LET query == Trim(SearchQuery)
    IN  query # <<>> =>
            /\ ParseQuery(KaomojiList, query).remainingQuery = Trim(CutTokens(query, 1))
            /\ TokensOnly(SearchQuery) =>
                   ParseQuery(KaomojiList, query).remainingQuery = <<>>

(***************************************************************************)
(* Commits whose clipboard writes are pending together                     *)
(***************************************************************************)

\* the a-th and the b-th CopyToClipboard calls, issued in that order for
\* different Characters, have both ended with successState true, and no
\* call issued after the a-th other than the b-th has
BothSucceeded(a, b) ==
    /\ a \in Indices(copies)
    /\ b \in Indices(copies)
    /\ a < b
    /\ copies[a].character # copies[b].character
    /\ copies[a].pc = "copied"
    /\ copies[b].pc = "copied"
    /\ \A k \in Indices(copies) : (k > a /\ k # b) => copies[k].pc # "copied"

\* C21: when two CopyToClipboard calls issued one after the other for
\* different Characters have both succeeded, the Character of the later call
\* stands before the Character of the earlier one in RecentKaomojis and
\* LastCopied is the Character of the later call, in whatever order their
\* writes resolved.
LaterCommitAhead ==
    \A a, b \in Indices(copies) :
        BothSucceeded(a, b) =>
            /\ FindIndex(RecentKaomojis, copies[a].character) # 0
            /\ FindIndex(RecentKaomojis, copies[b].character) # 0
            /\ FindIndex(RecentKaomojis, copies[b].character)
                   < FindIndex(RecentKaomojis, copies[a].character)
            /\ LastCopied = copies[b].character

(***************************************************************************)
(* A save resolved while LoadUserKaomojis is pending                       *)
(***************************************************************************)

\* the number of entries of list with the Character
CountOf(list, character) ==
    Cardinality({i \in Indices(list) : list[i].Character = character})

\* C22: the resolution of LoadUserKaomojis merges into KaomojiList as it is
\* at that step, in one step: every entry it held, those upserted while the
\* load was pending included, keeps its position, and every entry added is a
\* loaded one whose Character it did not hold.  The resolution of a save,
\* before or after the load's, leaves the saved entry in KaomojiList without
\* adding to the entries of its Character when there was one.
MergeKeepsUpserts ==
    [][ /\ last'.op = "LoadResolved" =>
            /\ Len(KaomojiList') >= Len(KaomojiList)
            /\ SubSeq(KaomojiList', 1, Len(KaomojiList)) = KaomojiList
            /\ \A k \in (Len(KaomojiList) + 1)..Len(KaomojiList') :
                   /\ CountOf(KaomojiList, KaomojiList'[k].Character) = 0
                   /\ \E u \in Indices(last'.arg) : last'.arg[u] = KaomojiList'[k]
        /\ last'.op = "SaveResolved" =>
            /\ \E k \in Indices(KaomojiList') : KaomojiList'[k] = last'.arg
            /\ CountOf(KaomojiList', last'.arg.Character)
                   = Max(1, CountOf(KaomojiList, last'.arg.Character)) ]_vars

\* a save appended an entry while the load was pending, and the load then
\* resolved with an entry of the same Character: the catalog holds the saved
\* entry, once, and not the loaded one
UpsertThenLoadOfSameGlyph ==
    /\ last.op = "LoadResolved"
    /\ \E u \in Indices(last.arg) : last.arg[u].Character = G3
    /\ Len(KaomojiList) = Len(KaomojiDataRaw) + 1
    /\ KaomojiList[Len(KaomojiList)].Character = G3
    /\ \A u \in Indices(last.arg) : last.arg[u] # KaomojiList[Len(KaomojiList)]

(***************************************************************************)
(* Tokens whose value has no letter, digit, underscore or hyphen           *)
(***************************************************************************)

\* a word of the query is a cat: or tag: token whose value sanitizes to the
\* empty string
HasEmptyValueToken(query) ==
    \E i \in Indices(Words(query)) :
        LET w == Words(query)[i]
        IN  /\ IsCatToken(w) \/ IsTagToken(w)
            /\ Sanitize(SubSeq(w, 5, Len(w))) = <<>>

====
